---- MODULE Spec2Model ----
(***************************************************************************)
(* Model of fuser.py: a CLI that fuses several requirements files into one *)
(* and reports dependency conflicts.                                       *)
(*                                                                         *)
(* Python strings are sequences of one-character strings.  Python floats   *)
(* are records [k |-> "float", v |-> n] where n is the value in hundredths *)
(* (every version of the model has at most two fractional digits), the     *)
(* int literal 0 is [k |-> "int", v |-> 0], math.inf is [k |-> "inf"] and  *)
(* the empty string used as a placeholder version is [k |-> "str"].        *)
(***************************************************************************)
EXTENDS Naturals, Integers, Sequences, FiniteSets, TLC

(* ------------------------------ bounds -------------------------------- *)
\* the most items of a requirements list handed to fuser
MaxItems == 3
\* the most lines of the first requirements file
MaxLines == 2

(* ------------------------- characters and strings --------------------- *)
NL == "\n"
DigitChars == <<"0", "1", "2", "3", "4", "5", "6", "7", "8", "9">>
Digits == {DigitChars[i] : i \in 1..10}
Letters == {"a", "b", "f", "g", "i", "t"}
OpChars == {"<", ">", "="}
VersionChars == Digits \cup {"."}

DigitVal(c) == (CHOOSE i \in 1..10 : DigitChars[i] = c) - 1

LT == <<"<">>
LE == <<"<", "=">>
EQ == <<"=", "=">>
GE == <<">", "=">>
GT == <<">">>
NE == <<"!", "=">>
EmptyString == <<>>

allowed_ops == <<LT, LE, EQ, GE, GT>>

RECURSIVE Concat(_)
Concat(ss) == IF ss = <<>> THEN <<>> ELSE Head(ss) \o Concat(Tail(ss))

\* sep.join(ss)
RECURSIVE Join(_, _)
Join(sep, ss) ==
    IF ss = <<>> THEN <<>>
    ELSE IF Len(ss) = 1 THEN ss[1]
    ELSE ss[1] \o sep \o Join(sep, Tail(ss))

\* s.split(c) for a one-character separator
RECURSIVE Split(_, _)
Split(s, c) ==
    IF \A i \in 1..Len(s) : s[i] # c THEN <<s>>
    ELSE LET i == CHOOSE j \in 1..Len(s) : s[j] = c /\ \A k \in 1..(j-1) : s[k] # c
         IN  <<SubSeq(s, 1, i-1)>> \o Split(SubSeq(s, i+1, Len(s)), c)

StartsWith(s, p) == Len(s) >= Len(p) /\ SubSeq(s, 1, Len(p)) = p

\* the longest prefix of s made of characters of cls
RunLen(s, cls) ==
    IF \A i \in 1..Len(s) : s[i] \in cls THEN Len(s)
    ELSE (CHOOSE j \in 1..Len(s) : s[j] \notin cls /\ \A k \in 1..(j-1) : s[k] \in cls) - 1

RECURSIVE DigitsToNat(_)
DigitsToNat(ds) ==
    IF ds = <<>> THEN 0
    ELSE 10 * DigitsToNat(SubSeq(ds, 1, Len(ds) - 1)) + DigitVal(ds[Len(ds)])

RECURSIVE NatToDigits(_)
NatToDigits(n) ==
    IF n < 10 THEN <<DigitChars[n + 1]>>
    ELSE NatToDigits(n \div 10) \o <<DigitChars[(n % 10) + 1]>>

(* ------------------------------ numbers ------------------------------- *)
Float(n) == [k |-> "float", v |-> n]
IntZero == [k |-> "int", v |-> 0]
inf == [k |-> "inf", v |-> 0]
NoVersion == [k |-> "str", v |-> 0]

IsNum(x) == x.k \in {"float", "int", "inf"}

\* x < y on Python numbers
NumLt(x, y) ==
    IF x.k = "inf" THEN FALSE
    ELSE IF y.k = "inf" THEN TRUE
    ELSE x.v < y.v

\* x == y in Python: 0 == 0.0 holds, a number never equals a string
PyEq(x, y) ==
    IF IsNum(x) /\ IsNum(y) THEN ~NumLt(x, y) /\ ~NumLt(y, x)
    ELSE x = y

\* min(xs): the first of the smallest elements
RECURSIVE PyMin(_)
PyMin(xs) ==
    IF Len(xs) = 1 THEN xs[1]
    ELSE LET m == PyMin(SubSeq(xs, 1, Len(xs) - 1))
         IN  IF NumLt(xs[Len(xs)], m) THEN xs[Len(xs)] ELSE m

\* max(xs): the first of the largest elements
RECURSIVE PyMax(_)
PyMax(xs) ==
    IF Len(xs) = 1 THEN xs[1]
    ELSE LET m == PyMax(SubSeq(xs, 1, Len(xs) - 1))
         IN  IF NumLt(m, xs[Len(xs)]) THEN xs[Len(xs)] ELSE m

\* a sort that leaves the list as it is
unsorted(xs) == xs

\* sorted(xs) on floats (stable insertion)
RECURSIVE sorted(_)
sorted(xs) ==
    IF xs = <<>> THEN <<>>
    ELSE LET rest == sorted(SubSeq(xs, 1, Len(xs) - 1))
             x == xs[Len(xs)]
             n == Cardinality({i \in 1..Len(rest) : ~NumLt(x, rest[i])})
         IN  SubSeq(rest, 1, n) \o <<x>> \o SubSeq(rest, n + 1, Len(rest))

\* str(x) as f-strings format it
PyStr(x) ==
    CASE x.k = "str" -> <<>>
      [] x.k = "int" -> NatToDigits(x.v)
      [] x.k = "inf" -> <<"i", "n", "f">>
      [] x.k = "float" ->
           NatToDigits(x.v \div 100) \o <<".">> \o
           (IF x.v % 10 = 0 THEN <<DigitChars[((x.v % 100) \div 10) + 1]>>
            ELSE <<DigitChars[((x.v % 100) \div 10) + 1], DigitChars[(x.v % 10) + 1]>>)

\* does re.search("^\d+\.\d+", v) match
VersionMatches(v) ==
    LET n == RunLen(v, Digits)
    IN  /\ n >= 1
        /\ Len(v) >= n + 2
        /\ v[n + 1] = "."
        /\ v[n + 2] \in Digits

\* float(re.search("^\d+\.\d+", v)[0]); defined where VersionMatches(v)
version_number_to_float(v) ==
    LET n == RunLen(v, Digits)
        rest == SubSeq(v, n + 2, Len(v))
        m == RunLen(rest, Digits)
        frac == SubSeq(rest, 1, m)
    IN  Float(100 * DigitsToNat(SubSeq(v, 1, n))
              + (IF m = 1 THEN 10 * DigitVal(frac[1])
                 ELSE 10 * DigitVal(frac[1]) + DigitVal(frac[2])))

(* ----------------------------- parsing --------------------------------- *)
Range(s) == {s[i] : i \in 1..Len(s)}

\* rgx.search(r): the leftmost run of letters, then the operator characters
\* and the version characters that follow it; <<>> when r holds no letter
rgx_search(r) ==
    IF \A i \in 1..Len(r) : r[i] \notin Letters THEN <<>>
    ELSE LET i == CHOOSE j \in 1..Len(r) : r[j] \in Letters /\ \A k \in 1..(j-1) : r[k] \notin Letters
             r1 == SubSeq(r, i, Len(r))
             n1 == RunLen(r1, Letters)
             r2 == SubSeq(r1, n1 + 1, Len(r1))
             n2 == RunLen(r2, OpChars)
             r3 == SubSeq(r2, n2 + 1, Len(r2))
             n3 == RunLen(r3, VersionChars)
         IN  <<SubSeq(r1, 1, n1), SubSeq(r2, 1, n2), SubSeq(r3, 1, n3)>>

IsRequirementLine(r) == Len(r) > 0 /\ ~StartsWith(r, <<"#">>)
IsPassThrough(r) == StartsWith(r, <<"-", "-">>) \/ StartsWith(r, <<"g", "i", "t", "+">>)

\* the requirement of one kept line
parse_line(r) ==
    IF IsPassThrough(r) THEN <<r, EmptyString, EmptyString>> ELSE rgx_search(r)

\* parse_requirements(t): err is "TypeError" when rgx matches nothing on a line
parse_requirements(t) ==
    LET lines == SelectSeq(Split(t, NL), IsRequirementLine)
        bad == \E i \in 1..Len(lines) : ~IsPassThrough(lines[i]) /\ rgx_search(lines[i]) = <<>>
    IN  IF bad THEN [err |-> "TypeError", reqs |-> <<>>]
        ELSE [err |-> "", reqs |-> [i \in 1..Len(lines) |-> parse_line(lines[i])]]

(* ------------------------------- fuser -------------------------------- *)
\* the (operator, version string) of the items of pkg that carry a version
specs_of(pkg, reqs_list) ==
    LET items == SelectSeq(Concat(reqs_list), LAMBDA item : item[1] = pkg /\ Len(item[3]) > 0)
    IN  [i \in 1..Len(items) |-> <<items[i][2], items[i][3]>>]

\* the keys of a dict built from the operators of versions, in insertion order
RECURSIVE op_keys(_)
op_keys(versions) ==
    IF versions = <<>> THEN <<>>
    ELSE LET ks == op_keys(SubSeq(versions, 1, Len(versions) - 1))
             op == versions[Len(versions)][1]
         IN  IF op \in Range(ks) THEN ks ELSE Append(ks, op)

versions_by_op(versions, op) ==
    LET sel == SelectSeq(versions, LAMBDA x : x[1] = op)
    IN  sorted([i \in 1..Len(sel) |-> sel[i][2]])

\* a conflict test that lets two distinct pins pass
pins_conflict_above_two(vs) == Cardinality(Range(vs)) > 2

\* len(set(versions)) > 1
pins_conflict(vs) == Cardinality(Range(vs)) > 1

\* the loop over versions_by_op.items(): the ranges of the operators met so
\* far, until one raises
RECURSIVE op_range_loop(_, _)
op_range_loop(ops, versions) ==
    IF ops = <<>> THEN [err |-> "", ranges |-> <<>>, last |-> <<>>]
    ELSE LET done == op_range_loop(SubSeq(ops, 1, Len(ops) - 1), versions)
             op == ops[Len(ops)]
             vs == versions_by_op(versions, op)
         IN  IF done.err # "" THEN done
             ELSE IF op \in {LE, LT}
                  THEN [err |-> "", ranges |-> Append(done.ranges, <<op, IntZero, vs[1]>>), last |-> vs]
             ELSE IF op \in {GE, GT}
                  THEN [err |-> "", ranges |-> Append(done.ranges, <<op, vs[Len(vs)], inf>>), last |-> vs]
             ELSE IF op = EQ /\ pins_conflict(vs)
                  THEN [err |-> "DependencyConflictError", ranges |-> done.ranges, last |-> vs]
             ELSE IF op = EQ
                  THEN [err |-> "", ranges |-> Append(done.ranges, <<op, vs[1], vs[1]>>), last |-> vs]
             \* the message of UnsupportedOperatorError reads the undefined
             \* name alowed_ops: building it raises NameError
             ELSE [err |-> "NameError", ranges |-> done.ranges, last |-> vs]

HasKey(ranges, op) == \E i \in 1..Len(ranges) : ranges[i][1] = op
RangeOf(ranges, op) == ranges[CHOOSE i \in 1..Len(ranges) : ranges[i][1] = op]

\* number == op_range[op]: a number compared with a two-element list
EqualsRange(x, range) == FALSE

\* the resolved constraint once every operator has its range
resolve(pkg, ranges, last) ==
    LET roof == PyMax([i \in 1..Len(ranges) |-> ranges[i][3]])
        floor == PyMin([i \in 1..Len(ranges) |-> ranges[i][2]])
    IN  IF NumLt(roof, floor)
        THEN [err |-> "DependencyConflictError", pkg |-> pkg, versions |-> last]
        ELSE IF PyEq(roof, inf)
        THEN [err |-> "", pkg |-> pkg, versions |->
                IF HasKey(ranges, GE) /\ EqualsRange(floor, RangeOf(ranges, GE))
                THEN <<<<GE, floor>>>> ELSE <<<<GT, floor>>>>]
        ELSE IF PyEq(floor, IntZero)
        THEN [err |-> "", pkg |-> pkg, versions |->
                IF HasKey(ranges, LE) /\ EqualsRange(roof, RangeOf(ranges, LE))
                THEN <<<<LE, roof>>>> ELSE <<<<LT, roof>>>>]
        ELSE [err |-> "", pkg |-> pkg, versions |-> <<<<GE, floor>>, <<LE, roof>>>>]

\* one iteration of the loop over pkgs: the entry of pkgs_to_versions, or
\* the exception raised
fuse_pkg(pkg, reqs_list) ==
    LET specs == specs_of(pkg, reqs_list)
    IN  IF \E i \in 1..Len(specs) : ~VersionMatches(specs[i][2])
        THEN [err |-> "TypeError", pkg |-> pkg, versions |-> <<>>]
        ELSE LET versions == [i \in 1..Len(specs) |-> <<specs[i][1], version_number_to_float(specs[i][2])>>]
             IN  IF Len(versions) = 0
                 THEN [err |-> "", pkg |-> pkg, versions |-> <<<<EmptyString, NoVersion>>>>]
                 ELSE IF Len(versions) = 1
                 THEN [err |-> "", pkg |-> pkg, versions |-> versions]
                 ELSE LET loop == op_range_loop(op_keys(versions), versions)
                      IN  IF loop.err # ""
                          THEN [err |-> loop.err, pkg |-> pkg, versions |-> loop.last]
                          ELSE resolve(pkg, loop.ranges, loop.last)

\* a line with a comma between the name and the first clause
to_string_line_comma(pkg, op_version) ==
    pkg \o <<",">> \o Join(<<",">>, [i \in 1..Len(op_version) |-> op_version[i][1] \o PyStr(op_version[i][2])])

\* one line of to_string
to_string_line(pkg, op_version) ==
    pkg \o Join(<<",">>, [i \in 1..Len(op_version) |-> op_version[i][1] \o PyStr(op_version[i][2])])

\* to_string(reqs_obj) on a dict kept as the sequence of its (key, value)
to_string(reqs_obj) ==
    Join(<<NL>>, [i \in 1..Len(reqs_obj) |-> to_string_line(reqs_obj[i][1], reqs_obj[i][2])])

(* ------------------------------ inputs -------------------------------- *)
PkgA == <<"a">>
PkgB == <<"b">>
V00 == <<"0", ".", "0">>
V10 == <<"1", ".", "0">>
V25 == <<"2", ".", "5">>

\* the requirements handed to fuser directly
ItemPool ==
    {<<PkgA, op, v>> : op \in {LT, LE, EQ, GE, GT, NE}, v \in {V00, V10}}
    \cup {<<PkgA, EmptyString, EmptyString>>,
          <<PkgB, EmptyString, EmptyString>>,
          <<PkgB, EQ, <<"1">>>>}

ItemSeqs == UNION {[1..n -> ItemPool] : n \in 0..MaxItems}

\* two sources: the first one holds the first item or nothing
ReqsLists ==
    {<<s, <<>>>> : s \in ItemSeqs}
    \cup {<<<<s[1]>>, Tail(s)>> : s \in ItemSeqs \ {<<>>}}

\* the lines of the requirements files
LinePool ==
    {PkgA, PkgB,
     PkgA \o EQ \o V10,
     PkgA \o EQ \o V25,
     PkgA \o <<"=">> \o V10,
     <<"g", "i", "t", "+", "a">>,
     <<"#", "a">>,
     V10}

Texts == {Join(<<NL>>, ls) : ls \in UNION {[1..n -> LinePool] : n \in 0..MaxLines}}
SecondTexts == {PkgA \o GE \o V10, PkgB}

None == "None"
Paths == {"f1", "f2", "nf", "out"}
NoFile == [isfile |-> FALSE, data |-> <<>>]
File(t) == [isfile |-> TRUE, data |-> t]

(* ------------------------------- state -------------------------------- *)
VARIABLES
    pc,                 \* the statement about to run
    input_reqs_files,   \* the paths of -i
    output,             \* the path of -o, or None
    overwrite,          \* -w
    fs,                 \* the files: path -> [isfile, data]
    input_requirements, \* the texts read, then the lists parsed
    pkgs,               \* fuser: the packages not yet fused
    pkgs_to_versions,   \* fuser: the dict built so far, in insertion order
    fused_reqs,         \* the dict fuser returned, then its text
    stdout,             \* what print wrote
    err                 \* the exception that ended the run

vars == <<pc, input_reqs_files, output, overwrite, fs, input_requirements,
          pkgs, pkgs_to_versions, fused_reqs, stdout, err>>

NoErr == [type |-> "", pkg |-> <<>>]
Raise(type, pkg) == /\ pc' = "raised"
                    /\ err' = [type |-> type, pkg |-> pkg]

\* a run of the command line
Init ==
    /\ pc = "validate_arguments"
    /\ input_reqs_files \in {<<"f1">>, <<"f1", "f2">>, <<"f1", "nf">>}
    /\ output \in {None, "out", "f1"}
    /\ overwrite \in BOOLEAN
    /\ \E t1 \in Texts, t2 \in SecondTexts :
          fs = [p \in Paths |-> CASE p = "f1" -> File(t1)
                                  [] p = "f2" -> File(t2)
                                  [] OTHER -> NoFile]
    /\ input_requirements = <<>>
    /\ pkgs = {}
    /\ pkgs_to_versions = <<>>
    /\ fused_reqs = <<>>
    /\ stdout = <<>>
    /\ err = NoErr

\* a call of fuser on a requirements list
InitFuser ==
    /\ pc = "fuser"
    /\ input_reqs_files = <<>>
    /\ output = None
    /\ overwrite = FALSE
    /\ fs = [p \in Paths |-> NoFile]
    /\ input_requirements \in ReqsLists
    /\ pkgs = {}
    /\ pkgs_to_versions = <<>>
    /\ fused_reqs = <<>>
    /\ stdout = <<>>
    /\ err = NoErr

(* ------------------------------ actions ------------------------------- *)
\* a validation that opens the output file for writing once it passed
ValidateArgumentsOpeningOutput ==
    /\ pc = "validate_arguments"
    /\ IF \E i \in 1..Len(input_reqs_files) : ~fs[input_reqs_files[i]].isfile
       THEN Raise("FileNotFoundError", <<>>) /\ UNCHANGED fs
       ELSE IF output # None /\ fs[output].isfile /\ ~overwrite
       THEN Raise("FileExistsError", <<>>) /\ UNCHANGED fs
       ELSE /\ pc' = "read_file"
            /\ err' = err
            /\ fs' = IF output = None THEN fs ELSE [fs EXCEPT ![output] = File(<<>>)]
    /\ UNCHANGED <<input_reqs_files, output, overwrite, input_requirements,
                   pkgs, pkgs_to_versions, fused_reqs, stdout>>

ValidateArguments ==
    /\ pc = "validate_arguments"
    /\ IF \E i \in 1..Len(input_reqs_files) : ~fs[input_reqs_files[i]].isfile
       THEN Raise("FileNotFoundError", <<>>)
       ELSE IF output # None /\ fs[output].isfile /\ ~overwrite
       THEN Raise("FileExistsError", <<>>)
       ELSE pc' = "read_file" /\ err' = err
    /\ UNCHANGED <<input_reqs_files, output, overwrite, fs, input_requirements,
                   pkgs, pkgs_to_versions, fused_reqs, stdout>>

ReadFiles ==
    /\ pc = "read_file"
    /\ input_requirements' = [i \in 1..Len(input_reqs_files) |-> fs[input_reqs_files[i]].data]
    /\ pc' = "parse_requirements"
    /\ UNCHANGED <<input_reqs_files, output, overwrite, fs,
                   pkgs, pkgs_to_versions, fused_reqs, stdout, err>>

ParseRequirements ==
    /\ pc = "parse_requirements"
    /\ LET parsed == [i \in 1..Len(input_requirements) |-> parse_requirements(input_requirements[i])]
       IN  IF \E i \in 1..Len(parsed) : parsed[i].err # ""
           THEN Raise("TypeError", <<>>) /\ UNCHANGED input_requirements
           ELSE /\ input_requirements' = [i \in 1..Len(parsed) |-> parsed[i].reqs]
                /\ pc' = "fuser"
                /\ err' = err
    /\ UNCHANGED <<input_reqs_files, output, overwrite, fs,
                   pkgs, pkgs_to_versions, fused_reqs, stdout>>

\* fuser, up to its loop: the set of the package names
FuserCall ==
    /\ pc = "fuser"
    /\ pkgs' = {item[1] : item \in Range(Concat(input_requirements))}
    /\ pkgs_to_versions' = <<>>
    /\ pc' = "fuser_loop"
    /\ UNCHANGED <<input_reqs_files, output, overwrite, fs, input_requirements,
                   fused_reqs, stdout, err>>

\* one iteration of `for pkg in pkgs`: a set is iterated in any order
FuserPkg ==
    /\ pc = "fuser_loop"
    /\ \E pkg \in pkgs :
          LET r == fuse_pkg(pkg, input_requirements)
          IN  IF r.err # ""
              THEN Raise(r.err, pkg) /\ UNCHANGED <<pkgs, pkgs_to_versions>>
              ELSE /\ pkgs' = pkgs \ {pkg}
                   /\ pkgs_to_versions' = Append(pkgs_to_versions, <<pkg, r.versions>>)
                   /\ UNCHANGED <<pc, err>>
    /\ UNCHANGED <<input_reqs_files, output, overwrite, fs, input_requirements,
                   fused_reqs, stdout>>

FuserReturn ==
    /\ pc = "fuser_loop"
    /\ pkgs = {}
    /\ fused_reqs' = pkgs_to_versions
    /\ pc' = "to_string"
    /\ UNCHANGED <<input_reqs_files, output, overwrite, fs, input_requirements,
                   pkgs, pkgs_to_versions, stdout, err>>

ToStringCall ==
    /\ pc = "to_string"
    /\ fused_reqs' = to_string(fused_reqs)
    /\ pc' = "output"
    /\ UNCHANGED <<input_reqs_files, output, overwrite, fs, input_requirements,
                   pkgs, pkgs_to_versions, stdout, err>>

WriteFile ==
    /\ pc = "output"
    /\ output # None
    /\ fs' = [fs EXCEPT ![output] = File(fused_reqs)]
    /\ pc' = "done"
    /\ UNCHANGED <<input_reqs_files, output, overwrite, input_requirements,
                   pkgs, pkgs_to_versions, fused_reqs, stdout, err>>

PrintOutput ==
    /\ pc = "output"
    /\ output = None
    /\ stdout' = fused_reqs \o <<NL>>
    /\ pc' = "done"
    /\ UNCHANGED <<input_reqs_files, output, overwrite, fs, input_requirements,
                   pkgs, pkgs_to_versions, fused_reqs, err>>

Next ==
    \/ ValidateArguments
    \/ ReadFiles
    \/ ParseRequirements
    \/ FuserCall
    \/ FuserPkg
    \/ FuserReturn
    \/ ToStringCall
    \/ WriteFile
    \/ PrintOutput

NextFuser ==
    \/ FuserCall
    \/ FuserPkg
    \/ FuserReturn

Spec == Init /\ [][Next]_vars

SpecFuser == InitFuser /\ [][NextFuser]_vars

(* ------------------------- vocabulary of the claims -------------------- *)
Returned == pc = "to_string"
FuserEnded == pc \in {"to_string", "raised"}
Supported(op) == op \in Range(allowed_ops)

Names == {item[1] : item \in Range(Concat(input_requirements))}

\* the version-carrying specs of pkg in the requirements fuser was given
Specs(pkg) == specs_of(pkg, input_requirements)
WellFormed(pkg) == \A i \in 1..Len(Specs(pkg)) : VersionMatches(Specs(pkg)[i][2])
AllSupported(pkg) == \A i \in 1..Len(Specs(pkg)) : Supported(Specs(pkg)[i][1])
ValuesOf(pkg, ops) ==
    {version_number_to_float(Specs(pkg)[i][2]) : i \in {j \in 1..Len(Specs(pkg)) : Specs(pkg)[j][1] \in ops}}

HasResult(pkg) == \E i \in 1..Len(fused_reqs) : fused_reqs[i][1] = pkg
ResultOf(pkg) == fused_reqs[CHOOSE i \in 1..Len(fused_reqs) : fused_reqs[i][1] = pkg][2]

\* does version v satisfy the constraint (op, x)
Satisfies(op, x, v) ==
    CASE op = LT -> NumLt(v, x)
      [] op = LE -> ~NumLt(x, v)
      [] op = EQ -> PyEq(v, x)
      [] op = GE -> ~NumLt(v, x)
      [] op = GT -> NumLt(x, v)
      [] OTHER -> TRUE

SatisfiesAll(constraint, v) ==
    \A i \in 1..Len(constraint) : Satisfies(constraint[i][1], constraint[i][2], v)

CheckVersions == {Float(0), Float(50), Float(100), Float(150)}

Least(S) == CHOOSE x \in S : \A y \in S : ~NumLt(y, x)
Greatest(S) == CHOOSE x \in S : \A y \in S : ~NumLt(x, y)

(* -------------------------------- C1 ----------------------------------- *)
\* C1: whenever fuser returns, for every package whose version-carrying
\* specs all use the five supported operators, a version satisfies the
\* resolved constraint if and only if it satisfies every input spec.
C1_TightestConstraint ==
    Returned =>
        \A pkg \in Names :
            AllSupported(pkg) =>
                \A v \in CheckVersions :
                    SatisfiesAll(ResultOf(pkg), v)
                    <=> \A i \in 1..Len(Specs(pkg)) :
                            Satisfies(Specs(pkg)[i][1], version_number_to_float(Specs(pkg)[i][2]), v)

(* -------------------------------- C2 ----------------------------------- *)
IsClosedRangeInput(pkg) ==
    /\ Len(Specs(pkg)) = 2
    /\ {Specs(pkg)[1][1], Specs(pkg)[2][1]} = {GE, LE}
    /\ ~NumLt(Greatest(ValuesOf(pkg, {LE})), Least(ValuesOf(pkg, {GE})))

\* C2: a package whose specs are exactly one >=x and one <=y with x <= y
\* is returned as [('>=', x), ('<=', y)] and rendered pkg>=x,<=y.
C2_ClosedRange ==
    \A pkg \in Names :
        WellFormed(pkg) /\ IsClosedRangeInput(pkg) /\ FuserEnded /\ (pc = "raised" => err.pkg = pkg) =>
            LET x == Least(ValuesOf(pkg, {GE}))
                y == Least(ValuesOf(pkg, {LE}))
            IN  /\ Returned
                /\ ResultOf(pkg) = <<<<GE, x>>, <<LE, y>>>>
                /\ to_string_line(pkg, ResultOf(pkg)) = pkg \o GE \o PyStr(x) \o <<",">> \o LE \o PyStr(y)

(* -------------------------------- C3 ----------------------------------- *)
HasCrossedBounds(pkg) ==
    /\ WellFormed(pkg)
    /\ \E a \in ValuesOf(pkg, {LT, LE}), b \in ValuesOf(pkg, {GT, GE}) : NumLt(a, b)

\* C3: a package with an upper bound a and a lower bound b, a < b, makes
\* fuser fail with the dependency-conflict error for that package.
C3_CrossedBoundsConflict ==
    \A pkg \in Names :
        HasCrossedBounds(pkg) /\ AllSupported(pkg) =>
            /\ ~Returned
            /\ (pc = "raised" /\ err.pkg = pkg => err.type = "DependencyConflictError")

(* -------------------------------- C4 ----------------------------------- *)
SameDirection(pkg, ops) ==
    /\ WellFormed(pkg)
    /\ Len(Specs(pkg)) >= 2
    /\ \A i \in 1..Len(Specs(pkg)) : Specs(pkg)[i][1] \in ops

\* C4: only upper bounds give the minimum version, with <= when the <=
\* bucket supplies it; only lower bounds give the maximum version, with >=
\* when the >= bucket supplies it.
C4_TightestSameDirection ==
    Returned =>
        \A pkg \in Names :
            /\ SameDirection(pkg, {LT, LE}) =>
                  LET m == Least(ValuesOf(pkg, {LT, LE}))
                  IN  ResultOf(pkg) = <<<<(IF m \in ValuesOf(pkg, {LE}) THEN LE ELSE LT), m>>>>
            /\ SameDirection(pkg, {GT, GE}) =>
                  LET m == Greatest(ValuesOf(pkg, {GT, GE}))
                  IN  ResultOf(pkg) = <<<<(IF m \in ValuesOf(pkg, {GE}) THEN GE ELSE GT), m>>>>

(* -------------------------------- C5 ----------------------------------- *)
HasDistinctPins(pkg) == WellFormed(pkg) /\ Cardinality(ValuesOf(pkg, {EQ})) >= 2

\* the original statement: whatever the other specs of the package and the
\* order of the sources, fuser does not return and the error the package
\* raises is the dependency-conflict error naming it
C5_Original ==
    \A pkg \in Names :
        HasDistinctPins(pkg) =>
            /\ ~Returned
            /\ (pc = "raised" /\ err.pkg = pkg => err.type = "DependencyConflictError")

\* no spec with an unsupported operator comes before the first == spec
NoUnsupportedBeforePin(pkg) ==
    \A i \in 1..Len(Specs(pkg)) :
        ~Supported(Specs(pkg)[i][1]) => \E j \in 1..(i - 1) : Specs(pkg)[j][1] = EQ

\* C5 (amended): a package with well-formed versions and == on two or more
\* distinct values never lets fuser return; the error raised while that
\* package is fused is the dependency-conflict error naming the package,
\* whatever the order of the sources, provided no spec of the package with
\* an unsupported operator comes before its first == spec.
C5_DistinctPinsConflict ==
    \A pkg \in Names :
        HasDistinctPins(pkg) =>
            /\ ~Returned
            /\ (pc = "raised" /\ err.pkg = pkg /\ NoUnsupportedBeforePin(pkg)
                    => err.type = "DependencyConflictError")

C5_Witness ==
    /\ pc = "raised"
    /\ err = [type |-> "DependencyConflictError", pkg |-> PkgA]
    /\ HasDistinctPins(PkgA)
    /\ ~AllSupported(PkgA)

(* -------------------------------- C6 ----------------------------------- *)
\* C6: a package with a version-carrying spec whose operator is not one
\* of the five makes fuser fail with UnsupportedOperatorError, whether it
\* has one such spec or several.
C6_UnsupportedOperator ==
    \A pkg \in Names :
        WellFormed(pkg) /\ ~AllSupported(pkg) /\ FuserEnded /\ (pc = "raised" => err.pkg = pkg) =>
            /\ pc = "raised"
            /\ err.type = "UnsupportedOperatorError"

(* -------------------------------- C7 ----------------------------------- *)
NoConstraint == <<<<EmptyString, NoVersion>>>>
Unversioned(name) == Specs(name) = <<>>

\* C7: every name that the inputs hold only without a version is a key of
\* the result of fuser with the constraint [('', '')], and its line of the
\* rendered text is the name itself, nothing appended.
C7_UnversionedPassThrough ==
    /\ Returned =>
          \A name \in Names :
              Unversioned(name) =>
                  /\ HasResult(name)
                  /\ ResultOf(name) = NoConstraint
                  /\ to_string_line(name, ResultOf(name)) = name
    /\ pc \in {"output", "done"} =>
          \A name \in Names :
              Unversioned(name) => name \in Range(Split(fused_reqs, NL))

C7_Witness ==
    /\ pc = "done"
    /\ output # None
    /\ Unversioned(<<"g", "i", "t", "+", "a">>)
    /\ <<"g", "i", "t", "+", "a">> \in Names
    /\ PkgB \in Names /\ Unversioned(PkgB)
    /\ PkgA \in Names /\ ~Unversioned(PkgA)

(* -------------------------------- C8 ----------------------------------- *)
\* C8: a run is all or nothing.  The only step that changes a file or
\* stdout is the output step, taken after validation, reading, parsing and
\* fusion have all succeeded; a step that raises writes nothing, and a run
\* that raised takes no further step.
C8_AllOrNothing ==
    [][ /\ (fs' # fs \/ stdout' # stdout) => pc = "output" /\ pc' = "done" /\ err = NoErr
        /\ pc' = "raised" => fs' = fs /\ stdout' = stdout
        /\ pc = "raised" => pc' = "raised"
        /\ pc = "done" => pc' = "done" ]_vars

C8_Witness ==
    /\ pc = "raised"
    /\ err.type = "DependencyConflictError"
    /\ output = "f1"
    /\ overwrite
    /\ fs["f1"].isfile
    /\ fs["f1"].data = input_requirements[1][1][1] \o EQ \o input_requirements[1][1][3]
                        \o <<NL>> \o input_requirements[1][2][1] \o EQ \o input_requirements[1][2][3]

(* -------------------------------- C9 ----------------------------------- *)
Equivalent(c1, c2) ==
    \A v \in CheckVersions : SatisfiesAll(c1, v) <=> SatisfiesAll(c2, v)

\* C9: for a single package whose fusion succeeds, rendering the resolved
\* constraint, parsing the text again and fusing it alone gives a
\* constraint equivalent to the resolved one.
C9_RoundTrip ==
    Returned /\ Len(fused_reqs) = 1 /\ AllSupported(fused_reqs[1][1]) =>
        LET pkg == fused_reqs[1][1]
            parsed == parse_requirements(to_string(fused_reqs))
            again == fuse_pkg(pkg, <<parsed.reqs>>)
        IN  /\ parsed.err = ""
            /\ {parsed.reqs[i][1] : i \in 1..Len(parsed.reqs)} = {pkg}
            /\ again.err = ""
            /\ Equivalent(again.versions, ResultOf(pkg))

(* -------------------------------- C10 ---------------------------------- *)
\* the multiset of the items of a requirements list, and one listing of it
\* that depends on the multiset alone
BagOfItems(reqs_list) ==
    LET s == Concat(reqs_list)
    IN  [x \in Range(s) |-> Cardinality({i \in 1..Len(s) : s[i] = x})]

RECURSIVE Listing(_)
Listing(bag) ==
    IF DOMAIN bag = {} THEN <<>>
    ELSE LET x == CHOOSE y \in DOMAIN bag : TRUE
             rest == [y \in (IF bag[x] = 1 THEN DOMAIN bag \ {x} ELSE DOMAIN bag) |->
                        IF y = x THEN bag[y] - 1 ELSE bag[y]]
         IN  <<x>> \o Listing(rest)

Canonical == <<Listing(BagOfItems(input_requirements))>>

CanonicalSucceeds == \A pkg \in Names : fuse_pkg(pkg, Canonical).err = ""

\* equality of two resolved constraints as Python compares them: 0 == 0.0
SameConstraint(c1, c2) ==
    /\ Len(c1) = Len(c2)
    /\ \A i \in 1..Len(c1) : c1[i][1] = c2[i][1] /\ PyEq(c1[i][2], c2[i][2])

\* the original statement: success and the returned mapping are those of
\* the multiset of the items
C10_Original ==
    FuserEnded =>
        /\ Returned <=> CanonicalSucceeds
        /\ Returned => \A pkg \in Names : ResultOf(pkg) = fuse_pkg(pkg, Canonical).versions

\* C10 (amended): whether fuser succeeds depends on the multiset of the
\* items alone, and so does the returned mapping up to the numeric equality
\* of the versions: a lower bound of zero is the int 0 or the float 0.0
\* according to the order of the specs.
C10_OrderIndependence ==
    FuserEnded =>
        /\ Returned <=> CanonicalSucceeds
        /\ Returned =>
              /\ {fused_reqs[i][1] : i \in 1..Len(fused_reqs)} = Names
              /\ \A pkg \in Names : SameConstraint(ResultOf(pkg), fuse_pkg(pkg, Canonical).versions)

C10_Witness ==
    /\ Returned
    /\ Concat(input_requirements) # Canonical[1]
    /\ ResultOf(PkgA) # fuse_pkg(PkgA, Canonical).versions
    /\ HasResult(PkgB)

====
